---- MODULE Spec2Model ----
(***************************************************************************)
(* Model of the Concurrency code samples: one batch of work items run      *)
(* under one of the six menu selections of Concurrency.py                  *)
(*   1  URLDownloadSynchronous.downloadAllSites   (sequential loop)        *)
(*   2  URLDownloadMultiThreaded.downloadAllSites (ThreadPoolExecutor(5))  *)
(*   3  URLDownloadAsyncIO.downloadAllSites       (asyncio tasks + gather) *)
(*   4  Concurrency.downloadAllSites              (multiprocessing.Pool)   *)
(*   5  Concurrency.findSums                      (sequential loop)        *)
(*   6  Concurrency.findSumsMultiProcessing       (multiprocessing.Pool)   *)
(* Items are identified by their position 1..n in the input list.          *)
(***************************************************************************)
EXTENDS Integers, Sequences, FiniteSets, TLC

\* ---------------------------------------------------------------- bounds
\* longest input list of the sequential and asyncio runs
MaxItems == 3
\* longest input list of the thread-pool and process-pool runs
MaxPoolItems == 6
\* largest number of items for which the work function raises
MaxFail == 2
\* largest os.cpu_count() considered (size of multiprocessing.Pool())
MaxCpu == 2
\* largest first number of the list handed to findSums
MaxNumber == 3

\* ------------------------------------------------------ program constants
\* ThreadPoolExecutor(max_workers=5)
MaxWorkers == 5

\* The thread with identity 0 is the main thread / parent process.
MainThread == 0
\* None: no session object
NoSession == 0

Max(a, b) == IF a > b THEN a ELSE b

\* identities available for pool workers (threads or processes)
WorkerIds == 1..(Max(MaxWorkers, MaxCpu) + 1)
\* positions of an input list of the longest length
ItemIds == 1..Max(MaxItems, MaxPoolItems)

VARIABLES
    sel,        \* processSelection: which demonstration runs (1..6)
    n,          \* len(sites) / len(numbers)
    cpu,        \* os.cpu_count(): number of processes of Pool()
    failing,    \* positions of the items for which the work function raises
    setupFault, \* TRUE when creating the session / pool raises
    pc,         \* position of the caller inside the batch function
    next,       \* loop variable: position of the next item of the for loop
    nstart,     \* nstart[i]: how many times the work function was called on i
    outcome,    \* outcome[i]: "none", "success" or "failure"
    queue,      \* work queue (threads), task queue of chunks (processes),
                \* ready queue of the event loop (asyncio)
    wstate,     \* wstate[w]: state of pool worker w
    witem,      \* witem[w]: item worker w is processing (0: none)
    wsession,   \* wsession[w]: threadLocal.session of thread w /
                \* global session of process w (index 0: the parent)
    idleSem,    \* ThreadPoolExecutor._idle_semaphore
    numberLeft, \* MapResult._number_left
    mapSuccess, \* MapResult._success
    tstate,     \* tstate[i]: state of the asyncio task of item i
    owner,      \* owner[s]: thread/process that created session s
    users,      \* users[s]: threads/processes that called s.get
    closed,     \* sessions that have been closed
    base,       \* numbers[0]: the list of findSums is base, base + 1, ...
    value,      \* value[i]: what sumOfSquares returned for item i (-1: nothing)
    moduleName, \* __name__ of the module Concurrency
    mpc,        \* position of the main script
    processSelection, \* the variable processSelection
    invalidPrinted,   \* the last input made the menu print INVALID SELECTION!
    lastCall,   \* the test function an importing module called last (0: none)
    deadlineExpired   \* an overall deadline for the run has passed

vars == <<sel, n, cpu, failing, setupFault, pc, next, nstart, outcome, queue,
          wstate, witem, wsession, idleSem, numberLeft, mapSuccess, tstate,
          owner, users, closed, base, value, moduleName, mpc,
          processSelection, invalidPrinted, lastCall, deadlineExpired>>

\* the main script's variables: no batch function touches them
menuVars == <<moduleName, mpc, processSelection, invalidPrinted, lastCall>>
inputVars == <<sel, n, cpu, failing, setupFault, base, menuVars,
               deadlineExpired>>
poolVars == <<queue, wstate, witem, wsession, idleSem, numberLeft, mapSuccess>>
sessVars == <<owner, users, closed>>
resultVars == <<outcome, value>>
itemVars == <<nstart, resultVars>>

Items == 1..n

\* ------------------------------------------------------------- strategies
IsSequential == sel \in {1, 5}
IsThreaded == sel = 2
IsAsyncIO == sel = 3
IsMultiProcess == sel \in {4, 6}
\* the download demonstrations use a requests / aiohttp session
IsDownload == sel \in {1, 2, 3, 4}

\* longest list tried for a selection
ItemBound(s) == IF s \in {2, 4, 6} THEN MaxPoolItems ELSE MaxItems

\* ------------------------------------------------------------ work items
\* the work function (downloadSite / sumOfSquares) applied to item i
WorkRaises(i) == i \in failing
WorkResult(i) == IF WorkRaises(i) THEN "failure" ELSE "success"

\* items whose work function call has begun and not ended
InFlight == {i \in Items : nstart[i] > 0 /\ outcome[i] = "none"}
Finished == {i \in Items : outcome[i] # "none"}

\* numbers[i - 1]: the i-th number of the list of the CPU-bound runs,
\* built like [3_000_000 + x for x in range(20)]
Number(i) == base + (i - 1)

\* sumOfSquares(number): sum(i * i for i in range(number)); range(number)
\* is empty when number <= 0
RECURSIVE SumOfSquaresInclusive(_)
SumOfSquaresInclusive(number) ==
    IF number <= 0 THEN 0
    ELSE number * number + SumOfSquaresInclusive(number - 1)
RECURSIVE SumOfSquares(_)
SumOfSquares(number) ==
    IF number <= 0 THEN 0
    ELSE (number - 1) * (number - 1) + SumOfSquares(number - 1)

StartItem(i) == nstart' = [nstart EXCEPT ![i] = @ + 1]
FinishItem(i) ==
    /\ outcome' = [outcome EXCEPT ![i] = WorkResult(i)]
    /\ value' = IF IsDownload THEN value
                ELSE [value EXCEPT ![i] = SumOfSquares(Number(i))]

\* ---------------------------------------------------------------- sessions
\* requests.Session() / aiohttp.ClientSession(): a new session object
NewSession == Len(owner) + 1
CreateSession(w) ==
    /\ owner' = Append(owner, w)
    /\ users' = Append(users, {})
UseSession(s, w) == users' = [users EXCEPT ![s] = @ \cup {w}]
CloseSession(s) == closed' = closed \cup {s}

\* ------------------------------------------------------------------ menu
\* the selections getProcessSelection accepts as a demonstration
ValidSelections == {"1", "2", "3", "4", "5", "6"}

\* the if / elif chain of the main loop: the demonstration a selection
\* (other than 'q') runs; the final else runs the sixth
Dispatch(ps) ==
    IF ps = "1" THEN 1
    ELSE IF ps = "2" THEN 2
    ELSE IF ps = "3" THEN 3
    ELSE IF ps = "4" THEN 4
    ELSE IF ps = "5" THEN 5
    ELSE 6

\* the selection that makes the main loop run demonstration k
SelectionOf(k) == CHOOSE ps \in ValidSelections : Dispatch(ps) = k

\* ------------------------------------------------------------------- Init
\* no batch function has been entered: no pool, no task, no session
IdleRun ==
    /\ pc = "idle"
    /\ next = 1
    /\ nstart = [i \in ItemIds |-> 0]
    /\ outcome = [i \in ItemIds |-> "none"]
    /\ value = [i \in ItemIds |-> -1]
    /\ queue = <<>>
    /\ wstate = [w \in WorkerIds |-> "unstarted"]
    /\ witem = [w \in WorkerIds |-> 0]
    /\ wsession = [w \in {MainThread} \cup WorkerIds |-> NoSession]
    /\ idleSem = 0
    /\ numberLeft = 0
    /\ mapSuccess = TRUE
    /\ tstate = [i \in ItemIds |-> "none"]
    /\ owner = <<>>
    /\ users = <<>>
    /\ closed = {}

\* the state in which the main loop has just dispatched a selection
Init ==
    /\ sel \in 1..6
    /\ n \in 0..ItemBound(sel)
    /\ cpu \in 1..MaxCpu
    /\ (sel \in {4, 6} \/ cpu = 1)
    /\ failing \in {F \in SUBSET (1..n) : Cardinality(F) <= MaxFail}
    /\ (sel \in {5, 6} => failing = {})
    /\ setupFault \in BOOLEAN
    /\ (sel = 5 => setupFault = FALSE)
    /\ base \in -1..MaxNumber
    /\ (IsDownload => base = 0)
    /\ moduleName = "__main__"
    /\ mpc = "run"
    /\ processSelection = SelectionOf(sel)
    /\ invalidPrinted = FALSE
    /\ lastCall = 0
    /\ deadlineExpired = FALSE
    /\ IdleRun

\* ------------------------------------------------------------------------
\* Sequential: URLDownloadSynchronous.downloadAllSites and findSums
\* ------------------------------------------------------------------------

\* the item the k-th iteration of "for url in sites" processes
LoopItemReversed(k) == n + 1 - k
LoopItem(k) == k

\* with requests.Session() as session:   (findSums opens nothing)
Sync_Enter ==
    /\ IsSequential /\ pc = "idle"
    /\ IF setupFault
       THEN pc' = "raised" /\ UNCHANGED <<sessVars, wsession>>
       ELSE /\ pc' = "loop"
            /\ IF IsDownload
               THEN /\ CreateSession(MainThread)
                    /\ wsession' = [wsession EXCEPT ![MainThread] = NewSession]
                    /\ UNCHANGED closed
               ELSE UNCHANGED <<sessVars, wsession>>
    /\ UNCHANGED <<inputVars, next, itemVars, queue, wstate, witem, idleSem,
                   numberLeft, mapSuccess, tstate>>

\* downloadSite(url, session) / sumOfSquares(number) is called
Sync_Call ==
    /\ IsSequential /\ pc = "loop" /\ next <= n
    /\ pc' = "call"
    /\ StartItem(LoopItem(next))
    /\ IF IsDownload
       THEN UseSession(wsession[MainThread], MainThread) /\ UNCHANGED <<owner, closed>>
       ELSE UNCHANGED sessVars
    /\ UNCHANGED <<inputVars, next, resultVars, poolVars, tstate>>

\* the call returns (next iteration) or raises (leaves the loop and the
\* with block, which closes the session)
Sync_CallEnds ==
    /\ IsSequential /\ pc = "call"
    /\ FinishItem(LoopItem(next))
    /\ IF WorkRaises(LoopItem(next))
       THEN /\ pc' = "raised"
            /\ IF IsDownload THEN CloseSession(wsession[MainThread])
                             ELSE UNCHANGED closed
            /\ UNCHANGED next
       ELSE /\ pc' = "loop"
            /\ next' = next + 1
            /\ UNCHANGED closed
    /\ UNCHANGED <<inputVars, nstart, poolVars, tstate, owner, users>>

\* the for loop is exhausted: the with block closes the session, return
Sync_Return ==
    /\ IsSequential /\ pc = "loop" /\ next > n
    /\ pc' = "returned"
    /\ IF IsDownload THEN CloseSession(wsession[MainThread])
                     ELSE UNCHANGED closed
    /\ UNCHANGED <<inputVars, next, itemVars, poolVars, tstate, owner, users>>

\* ------------------------------------------------------------------------
\* Thread pool: URLDownloadMultiThreaded.downloadAllSites
\* ------------------------------------------------------------------------

\* len(executor._threads)
NumThreads == Cardinality({w \in WorkerIds : wstate[w] # "unstarted"})

\* _adjust_thread_count: a thread is added only below max_workers
MayAddThreadOffByOne(numThreads) == numThreads <= MaxWorkers
MayAddThread(numThreads) == numThreads < MaxWorkers

\* where thread t keeps its session: threadLocal is a threading.local(),
\* so the attribute "session" is private to the thread
SessionSlotGlobal(t) == MainThread
SessionSlot(t) == t

\* hasattr(threadLocal, "session") as seen by thread t
HasSession(t) == wsession[SessionSlot(t)] # NoSession

\* work_queue.get(block=True): thread t is blocked on the queue and is the
\* one that receives the next entry.  Blocked threads that both own a session
\* or both own none differ in their name only, so of such threads the one
\* with the smallest index stands for all of them.
Receives(t) ==
    /\ wstate[t] = "idle"
    /\ \A u \in WorkerIds :
          (u < t /\ wstate[u] = "idle") => (HasSession(u) # HasSession(t))

\* with concurrent.futures.ThreadPoolExecutor(max_workers=5) as executor:
MT_Enter ==
    /\ IsThreaded /\ pc = "idle"
    /\ pc' = IF setupFault THEN "raised" ELSE "submit"
    /\ UNCHANGED <<inputVars, next, itemVars, poolVars, tstate, sessVars>>

\* executor.map: submit(downloadSite, sites[next]) for every item, in order;
\* submit puts the work item on the queue and adjusts the thread count
MT_Submit ==
    /\ IsThreaded /\ pc = "submit" /\ next <= n
    /\ queue' = Append(queue, next)
    /\ next' = next + 1
    /\ IF idleSem > 0
       THEN idleSem' = idleSem - 1 /\ UNCHANGED wstate
       ELSE /\ UNCHANGED idleSem
            /\ IF MayAddThread(NumThreads)
               THEN wstate' = [wstate EXCEPT ![NumThreads + 1] = "idle"]
               ELSE UNCHANGED wstate
    /\ UNCHANGED <<inputVars, pc, itemVars, witem, wsession, numberLeft,
                   mapSuccess, tstate, sessVars>>

\* executor.map has returned its iterator, which is dropped; leaving the
\* with block calls shutdown(wait=True), which puts the None wake-up
MT_Shutdown ==
    /\ IsThreaded /\ pc = "submit" /\ next > n
    /\ pc' = "join"
    /\ queue' = Append(queue, 0)
    /\ UNCHANGED <<inputVars, next, itemVars, wstate, witem, wsession, idleSem,
                   numberLeft, mapSuccess, tstate, sessVars>>

\* _worker: work_queue.get returns a work item; downloadSite(url) calls
\* getSession() and enters session.get(url)
MT_Take(t) ==
    /\ IsThreaded /\ Receives(t)
    /\ queue # <<>> /\ Head(queue) # 0
    /\ LET i == Head(queue)
           create == ~HasSession(t)
           s == IF create THEN NewSession ELSE wsession[SessionSlot(t)]
           us == IF create THEN Append(users, {}) ELSE users
       IN  /\ queue' = Tail(queue)
           /\ wstate' = [wstate EXCEPT ![t] = "running"]
           /\ witem' = [witem EXCEPT ![t] = i]
           /\ StartItem(i)
           /\ owner' = IF create THEN Append(owner, t) ELSE owner
           /\ wsession' = [wsession EXCEPT ![SessionSlot(t)] = s]
           /\ users' = [us EXCEPT ![s] = @ \cup {t}]
    /\ UNCHANGED <<inputVars, pc, next, resultVars, idleSem, numberLeft,
                   mapSuccess, tstate, closed>>

\* downloadSite returns or raises; work_item.run() stores either in the
\* future; the worker releases the idle semaphore and loops
MT_Done(t) ==
    /\ IsThreaded /\ wstate[t] = "running"
    /\ FinishItem(witem[t])
    /\ wstate' = [wstate EXCEPT ![t] = "idle"]
    /\ witem' = [witem EXCEPT ![t] = 0]
    /\ idleSem' = idleSem + 1
    /\ UNCHANGED <<inputVars, pc, next, nstart, queue, wsession, numberLeft,
                   mapSuccess, tstate, sessVars>>

\* _worker: work_queue.get returns None after shutdown: the worker puts
\* None back for the other workers and exits
MT_Exit(t) ==
    /\ IsThreaded /\ Receives(t)
    /\ queue # <<>> /\ Head(queue) = 0
    /\ queue' = Append(Tail(queue), 0)
    /\ wstate' = [wstate EXCEPT ![t] = "exited"]
    /\ UNCHANGED <<inputVars, pc, next, itemVars, witem, wsession, idleSem,
                   numberLeft, mapSuccess, tstate, sessVars>>

\* shutdown(wait=True): t.join() for every thread of the pool
NoThreadJoined == TRUE
AllThreadsJoined == \A w \in WorkerIds : wstate[w] \in {"unstarted", "exited"}

\* the iterator executor.map returned is never iterated, so no future's
\* result() is called and no stored exception is re-raised
ResultsReadByCaller == TRUE
ResultsRead == FALSE

MT_Return ==
    /\ IsThreaded /\ pc = "join"
    /\ AllThreadsJoined
    /\ pc' = IF ResultsRead /\ (\E i \in Items : outcome[i] = "failure")
             THEN "raised" ELSE "returned"
    /\ UNCHANGED <<inputVars, next, itemVars, poolVars, tstate, sessVars>>

\* ------------------------------------------------------------------------
\* Process pool: Concurrency.downloadAllSites and findSumsMultiProcessing
\* ------------------------------------------------------------------------

\* Pool._map_async: chunksize, extra = divmod(len, len(pool) * 4)
ChunkSize(len, poolSize) ==
    LET q == len \div (poolSize * 4)
        r == len % (poolSize * 4)
    IN  IF len = 0 THEN 0 ELSE IF r # 0 THEN q + 1 ELSE q

\* MapResult.__init__: number of chunks of the job
NumChunks(len, size) ==
    IF size <= 0 THEN 0
    ELSE (len \div size) + (IF len % size # 0 THEN 1 ELSE 0)

\* Pool._get_tasks: the items of chunk c (1-based) of the input list
FirstOfChunk(c, size) == (c - 1) * size + 1
IsLastOfChunk(i, size) == i % size = 0 \/ i = n

\* the pool of selection 4 has initializer=setGlobalSession
NoInitializer == FALSE
HasInitializer == sel = 4

\* setGlobalSession: the value of the global "session" after the call, given
\* its value cur before:  if not session: session = requests.Session()
SetGlobalSession(cur) == IF cur = NoSession THEN NewSession ELSE cur

\* with multiprocessing.Pool(initializer=setGlobalSession) as pool:
MP_Enter ==
    /\ IsMultiProcess /\ pc = "idle"
    /\ IF setupFault
       THEN pc' = "raised" /\ UNCHANGED wstate
       ELSE /\ pc' = "map"
            /\ wstate' = [w \in WorkerIds |->
                            IF w <= cpu THEN "init" ELSE "unstarted"]
    /\ UNCHANGED <<inputVars, next, itemVars, queue, witem, wsession, idleSem,
                   numberLeft, mapSuccess, tstate, sessVars>>

\* pool.map(f, items): the chunks are queued, the caller waits on the result
MP_Map ==
    /\ IsMultiProcess /\ pc = "map"
    /\ pc' = "wait"
    /\ LET k == NumChunks(n, ChunkSize(n, cpu))
       IN  /\ queue' = [c \in 1..k |-> c]
           /\ numberLeft' = k
    /\ mapSuccess' = TRUE
    /\ UNCHANGED <<inputVars, next, itemVars, wstate, witem, wsession, idleSem,
                   tstate, sessVars>>

\* worker(): initializer(*initargs) runs once when the process starts.
\* setGlobalSession: if not session: session = requests.Session()
MP_Initializer(p) ==
    /\ IsMultiProcess /\ wstate[p] = "init"
    /\ wstate' = [wstate EXCEPT ![p] = "idle"]
    /\ IF HasInitializer
       THEN /\ wsession' = [wsession EXCEPT ![p] = SetGlobalSession(@)]
            /\ IF SetGlobalSession(wsession[p]) # wsession[p]
               THEN CreateSession(p)
               ELSE UNCHANGED <<owner, users>>
       ELSE UNCHANGED <<owner, users, wsession>>
    /\ UNCHANGED <<inputVars, pc, next, itemVars, queue, witem, idleSem,
                   numberLeft, mapSuccess, tstate, closed>>

\* the session process p's downloadSite uses: its own global "session"
ProcessSession(p) == wsession[p]

\* process p calls the work function on item i
MP_CallWork(p, i) ==
    /\ StartItem(i)
    /\ witem' = [witem EXCEPT ![p] = i]
    /\ IF IsDownload /\ ProcessSession(p) # NoSession
       THEN UseSession(ProcessSession(p), p)
       ELSE UNCHANGED users

\* worker(): task = get(); mapstar starts on the first item of the chunk
MP_Take(p) ==
    /\ IsMultiProcess /\ wstate[p] = "idle" /\ queue # <<>>
    /\ queue' = Tail(queue)
    /\ wstate' = [wstate EXCEPT ![p] = "running"]
    /\ MP_CallWork(p, FirstOfChunk(Head(queue), ChunkSize(n, cpu)))
    /\ UNCHANGED <<inputVars, pc, next, resultVars, wsession, idleSem,
                   numberLeft,
                   mapSuccess, tstate, owner, closed>>

\* the work function returns or raises inside mapstar's list(map(f, chunk)).
\* A raise abandons the rest of the chunk: the chunk's result is
\* (False, e).  After the last item the chunk's result is (True, list).
\* MapResult._set counts the chunk and keeps the first failure.
MP_ItemEnds(p) ==
    /\ IsMultiProcess /\ wstate[p] = "running"
    /\ LET i == witem[p]
       IN  /\ FinishItem(i)
           /\ IF WorkRaises(i) \/ IsLastOfChunk(i, ChunkSize(n, cpu))
              THEN /\ wstate' = [wstate EXCEPT ![p] = "idle"]
                   /\ witem' = [witem EXCEPT ![p] = 0]
                   /\ numberLeft' = numberLeft - 1
                   /\ mapSuccess' = (mapSuccess /\ ~WorkRaises(i))
                   /\ UNCHANGED <<nstart, users>>
              ELSE /\ MP_CallWork(p, i + 1)
                   /\ UNCHANGED <<wstate, numberLeft, mapSuccess>>
    /\ UNCHANGED <<inputVars, pc, next, queue, wsession, idleSem, tstate,
                   owner, closed>>

\* MapResult: the result is ready once all chunks are done
MapReady == numberLeft = 0

\* Pool.terminate(): every worker process that was started is terminated
\* and joined; st is the state of the worker before
AfterClose(st) == st
AfterTerminate(st) == IF st = "unstarted" THEN "unstarted" ELSE "exited"

\* pool.map returns the list or raises the first failure; leaving the with
\* block calls pool.terminate(), which stops every worker process
MP_Exit ==
    /\ IsMultiProcess /\ pc = "wait"
    /\ MapReady
    /\ pc' = IF mapSuccess THEN "returned" ELSE "raised"
    /\ wstate' = [w \in WorkerIds |-> AfterTerminate(wstate[w])]
    /\ UNCHANGED <<inputVars, next, itemVars, queue, witem, wsession, idleSem,
                   numberLeft, mapSuccess, tstate, sessVars>>

\* ------------------------------------------------------------------------
\* asyncio: URLDownloadAsyncIO.downloadAllSites run by asyncio.run
\* ------------------------------------------------------------------------

\* entry of the ready queue that stands for the coroutine downloadAllSites
MainCoroutine == 0

\* the coroutine downloadAllSites is executing: between its start and its
\* first await there is no suspension point (the for loop only calls
\* ensure_future)
MainYieldsInLoop == FALSE
MainRunning == pc = "create"

\* tasks that are executing (between two of their await points)
RunningTasks == {i \in Items : tstate[i] \in {"running1", "running2"}}
AnyTaskMayRun == TRUE
NoTaskRunning == RunningTasks = {}

\* the event loop runs the next ready callback only when the previous one
\* has returned, i.e. when no coroutine is executing
LoopIdle == ~MainRunning /\ NoTaskRunning

\* async with aiohttp.ClientSession() as session:
Aio_Enter ==
    /\ IsAsyncIO /\ pc = "idle"
    /\ IF setupFault
       THEN pc' = "raised" /\ UNCHANGED <<sessVars, wsession>>
       ELSE /\ pc' = "create"
            /\ CreateSession(MainThread)
            /\ wsession' = [wsession EXCEPT ![MainThread] = NewSession]
            /\ UNCHANGED closed
    /\ UNCHANGED <<inputVars, next, itemVars, queue, wstate, witem, idleSem,
                   numberLeft, mapSuccess, tstate>>

\* task = asyncio.ensure_future(downloadSite(session, url)): the task is
\* scheduled on the ready queue; it does not run yet
Aio_EnsureFuture ==
    /\ IsAsyncIO /\ pc = "create" /\ next <= n
    /\ tstate' = [tstate EXCEPT ![next] = "pending"]
    /\ queue' = Append(queue, next)
    /\ next' = next + 1
    /\ UNCHANGED <<inputVars, pc, itemVars, wstate, witem, wsession, idleSem,
                   numberLeft, mapSuccess, sessVars>>

\* awaiting the gather of k tasks suspends the coroutine unless k = 0
GatherAlwaysSuspends(k) == TRUE
GatherSuspends(k) == k > 0

\* gather's future is resolved when task i finishes and every other task
\* is done already
GatherDoneOnFirst(i) == TRUE
GatherDone(i) == \A j \in Items \ {i} : tstate[j] = "done"

\* await asyncio.gather(*tasks, return_exceptions=True): downloadAllSites
\* is suspended until every task is done.  gather() of no task returns a
\* finished future: the await does not suspend, the session is closed and
\* the coroutine returns.
Aio_Gather ==
    /\ IsAsyncIO /\ pc = "create" /\ next > n
    /\ IF GatherSuspends(n)
       THEN pc' = "gather" /\ UNCHANGED closed
       ELSE pc' = "returned" /\ CloseSession(wsession[MainThread])
    /\ UNCHANGED <<inputVars, next, itemVars, poolVars, tstate, owner, users>>

\* the event loop starts the task at the head of the ready queue:
\* downloadSite(session, url) begins
Aio_TaskStart(i) ==
    /\ IsAsyncIO /\ pc \in {"create", "gather"} /\ LoopIdle
    /\ queue # <<>> /\ Head(queue) = i /\ tstate[i] = "pending"
    /\ queue' = Tail(queue)
    /\ tstate' = [tstate EXCEPT ![i] = "running1"]
    /\ StartItem(i)
    /\ UNCHANGED <<inputVars, pc, next, resultVars, wstate, witem, wsession,
                   idleSem, numberLeft, mapSuccess, sessVars>>

\* async with session.get(url): the task awaits the response and yields
Aio_TaskAwait(i) ==
    /\ IsAsyncIO /\ tstate[i] = "running1"
    /\ tstate' = [tstate EXCEPT ![i] = "waiting"]
    /\ UseSession(wsession[MainThread], MainThread)
    /\ UNCHANGED <<inputVars, pc, next, itemVars, poolVars, owner, closed>>

\* the response (or the network error) of item i has arrived: the event
\* loop, polling its selector, puts the task back on the ready queue
Aio_IOComplete(i) ==
    /\ IsAsyncIO /\ pc \in {"create", "gather"} /\ LoopIdle
    /\ tstate[i] = "waiting"
    /\ tstate' = [tstate EXCEPT ![i] = "ready"]
    /\ queue' = Append(queue, i)
    /\ UNCHANGED <<inputVars, pc, next, itemVars, wstate, witem, wsession,
                   idleSem, numberLeft, mapSuccess, sessVars>>

\* the event loop resumes the task at the head of the ready queue
Aio_TaskResume(i) ==
    /\ IsAsyncIO /\ pc \in {"create", "gather"} /\ LoopIdle
    /\ queue # <<>> /\ Head(queue) = i /\ tstate[i] = "ready"
    /\ queue' = Tail(queue)
    /\ tstate' = [tstate EXCEPT ![i] = "running2"]
    /\ UNCHANGED <<inputVars, pc, next, itemVars, wstate, witem, wsession,
                   idleSem, numberLeft, mapSuccess, sessVars>>

\* downloadSite prints and returns, or session.get raised: the task is
\* done, holding its result or its exception.  When it is the last task,
\* gather's future is resolved and downloadAllSites becomes ready.
Aio_TaskFinish(i) ==
    /\ IsAsyncIO /\ tstate[i] = "running2"
    /\ tstate' = [tstate EXCEPT ![i] = "done"]
    /\ FinishItem(i)
    /\ IF pc = "gather" /\ GatherDone(i)
       THEN queue' = Append(queue, MainCoroutine)
       ELSE UNCHANGED queue
    /\ UNCHANGED <<inputVars, pc, next, nstart, wstate, witem, wsession,
                   idleSem, numberLeft, mapSuccess, sessVars>>

\* downloadAllSites resumes after the gather; return_exceptions=True makes
\* gather return the exceptions as values; leaving the async with block
\* closes the session; the coroutine returns
Aio_Return ==
    /\ IsAsyncIO /\ pc = "gather" /\ LoopIdle
    /\ queue # <<>> /\ Head(queue) = MainCoroutine
    /\ queue' = Tail(queue)
    /\ pc' = "returned"
    /\ CloseSession(wsession[MainThread])
    /\ UNCHANGED <<inputVars, next, itemVars, wstate, witem, wsession, idleSem,
                   numberLeft, mapSuccess, tstate, owner, users>>

Next ==
    \/ Sync_Enter
    \/ Sync_Call
    \/ Sync_CallEnds
    \/ Sync_Return
    \/ MT_Enter
    \/ MT_Submit
    \/ MT_Shutdown
    \/ \E t \in WorkerIds : MT_Take(t)
    \/ \E t \in WorkerIds : MT_Done(t)
    \/ \E t \in WorkerIds : MT_Exit(t)
    \/ MT_Return
    \/ MP_Enter
    \/ MP_Map
    \/ \E p \in WorkerIds : MP_Initializer(p)
    \/ \E p \in WorkerIds : MP_Take(p)
    \/ \E p \in WorkerIds : MP_ItemEnds(p)
    \/ MP_Exit
    \/ Aio_Enter
    \/ Aio_EnsureFuture
    \/ Aio_Gather
    \/ \E i \in ItemIds : Aio_TaskStart(i)
    \/ \E i \in ItemIds : Aio_TaskAwait(i)
    \/ \E i \in ItemIds : Aio_IOComplete(i)
    \/ \E i \in ItemIds : Aio_TaskResume(i)
    \/ \E i \in ItemIds : Aio_TaskFinish(i)
    \/ Aio_Return

Spec == Init /\ [][Next]_vars

\* ------------------------------------------------------------------------
\* Main script of Concurrency.py: module body, menu loop, test functions
\* ------------------------------------------------------------------------

\* names under which the module Concurrency can be loaded: run as a script,
\* re-imported by a spawned worker process, imported by another module
ModuleNames == {"__main__", "__mp_main__", "Concurrency"}

\* what the user may type at the prompt
Inputs == ValidSelections \cup {"q", "Q", "0", "7", ""}

\* __name__ == "__main__"
GuardAbsent == TRUE
IsMainModule == moduleName = "__main__"

\* processSelection not in ['1', '2', '3', '4', '5', '6']
RejectsNothing(x) == FALSE
NotASelection(x) == x \notin ValidSelections

\* the module has just been loaded: nothing has run
MenuInit ==
    /\ moduleName \in ModuleNames
    /\ mpc = "start"
    /\ processSelection = ""
    /\ invalidPrinted = FALSE
    /\ lastCall = 0
    /\ deadlineExpired = FALSE
    /\ sel = 0 /\ n = 0 /\ cpu = 1 /\ failing = {} /\ setupFault = FALSE
    /\ base = 0
    /\ IdleRun

\* a test function builds its list and calls its batch function: the run of
\* demonstration k begins, on a list and in an environment of the model's
\* choice
StartRun(k) ==
    /\ sel' = k
    /\ \E nn \in 0..ItemBound(k) :
          /\ n' = nn
          /\ failing' \in {F \in SUBSET (1..nn) :
                             /\ Cardinality(F) <= MaxFail
                             /\ k \in {5, 6} => F = {}}
    /\ cpu' \in 1..(IF k \in {4, 6} THEN MaxCpu ELSE 1)
    /\ setupFault' \in (IF k = 5 THEN {FALSE} ELSE BOOLEAN)
    /\ base' \in (IF k \in {5, 6} THEN -1..MaxNumber ELSE {0})

\* testConcurrency4IOBoundMultiProcessing, testConcurrency5CPUBoundSynchronous
\* and testConcurrency6CPUBoundSMultiProcessing do their work under
\* if __name__ == "__main__"; the test functions of selections 1 to 3 live in
\* the URLDownload modules and have no such guard
IsGuarded(k) == k \in {4, 5, 6}

\* module body: if(__name__ == "__main__"): intro(), then the menu loop
Main_Start ==
    /\ mpc = "start"
    /\ mpc' = IF IsMainModule THEN "menu" ELSE "imported"
    /\ UNCHANGED <<sel, n, cpu, failing, setupFault, base, moduleName,
                   processSelection, invalidPrinted, lastCall, deadlineExpired,
                   pc, next, itemVars, poolVars, tstate, sessVars>>

\* getProcessSelection: one iteration of its while loop on the input x.
\* Not a selection: INVALID SELECTION! is printed unless x is 'q', then
\* continue; the loop condition lets 'q' leave the loop.  A selection:
\* break.  Leaving the loop returns processSelection.
GPS_Input(x) ==
    /\ mpc = "menu"
    /\ processSelection' = x
    /\ IF NotASelection(x)
       THEN /\ invalidPrinted' = (x # "q")
            /\ mpc' = IF x # "q" THEN "menu" ELSE "selected"
       ELSE /\ invalidPrinted' = FALSE
            /\ mpc' = "selected"
    /\ UNCHANGED <<sel, n, cpu, failing, setupFault, base, moduleName,
                   lastCall, deadlineExpired,
                   pc, next, itemVars, poolVars, tstate, sessVars>>

\* main loop: getProcessSelection has returned 'q': the while loop ends
Main_Quit ==
    /\ mpc = "selected" /\ processSelection = "q"
    /\ mpc' = "quit"
    /\ UNCHANGED <<sel, n, cpu, failing, setupFault, base, moduleName,
                   processSelection, invalidPrinted, lastCall, deadlineExpired,
                   pc, next, itemVars, poolVars, tstate, sessVars>>

\* main loop: the if / elif chain calls the test function of the selection
Main_Dispatch ==
    /\ mpc = "selected" /\ processSelection # "q"
    /\ LET k == Dispatch(processSelection)
       IN  IF IsGuarded(k) /\ ~IsMainModule
           THEN mpc' = "menu" /\ UNCHANGED <<sel, n, cpu, failing, setupFault, base>>
           ELSE mpc' = "run" /\ StartRun(k)
    /\ UNCHANGED <<moduleName, processSelection, invalidPrinted, lastCall,
                   deadlineExpired,
                   pc, next, itemVars, poolVars, tstate, sessVars>>

\* the batch function has returned: the test function prints the duration
\* and returns; the pool, the tasks and the sessions of the run are garbage;
\* the main loop calls getProcessSelection again, which starts from
\* processSelection = ''
Main_RunDone ==
    /\ mpc = "run" /\ pc = "returned"
    /\ mpc' = "menu"
    /\ sel' = 0 /\ n' = 0 /\ cpu' = 1 /\ failing' = {} /\ setupFault' = FALSE
    /\ base' = 0
    /\ pc' = "idle"
    /\ next' = 1
    /\ nstart' = [i \in ItemIds |-> 0]
    /\ outcome' = [i \in ItemIds |-> "none"]
    /\ value' = [i \in ItemIds |-> -1]
    /\ queue' = <<>>
    /\ wstate' = [w \in WorkerIds |-> "unstarted"]
    /\ witem' = [w \in WorkerIds |-> 0]
    /\ wsession' = [w \in {MainThread} \cup WorkerIds |-> NoSession]
    /\ idleSem' = 0
    /\ numberLeft' = 0
    /\ mapSuccess' = TRUE
    /\ tstate' = [i \in ItemIds |-> "none"]
    /\ owner' = <<>>
    /\ users' = <<>>
    /\ closed' = {}
    /\ processSelection' = ""
    /\ UNCHANGED <<moduleName, invalidPrinted, lastCall, deadlineExpired>>

\* the batch function has raised: neither the test function nor the main
\* loop catches anything, the script ends with a traceback
Main_RunRaised ==
    /\ mpc = "run" /\ pc = "raised"
    /\ mpc' = "crashed"
    /\ UNCHANGED <<sel, n, cpu, failing, setupFault, base, moduleName,
                   processSelection, invalidPrinted, lastCall, deadlineExpired,
                   pc, next, itemVars, poolVars, tstate, sessVars>>

\* the module was imported (or re-imported in a spawned worker process) and
\* the importer calls one of the test functions defined in Concurrency.py
Import_CallTest(k) ==
    /\ mpc = "imported" /\ IsGuarded(k)
    /\ lastCall' = k
    /\ IF IsMainModule
       THEN mpc' = "run" /\ StartRun(k)
       ELSE UNCHANGED <<mpc, sel, n, cpu, failing, setupFault, base>>
    /\ UNCHANGED <<moduleName, processSelection, invalidPrinted,
                   deadlineExpired,
                   pc, next, itemVars, poolVars, tstate, sessVars>>

MenuNext ==
    \/ Main_Start
    \/ \E x \in Inputs : GPS_Input(x)
    \/ Main_Quit
    \/ Main_Dispatch
    \/ Main_RunDone
    \/ Main_RunRaised
    \/ \E k \in 1..6 : Import_CallTest(k)
    \/ Next

MenuSpec == MenuInit /\ [][MenuNext]_vars

\* ------------------------------------------------------------------------
\* An overall deadline for the run
\* ------------------------------------------------------------------------

\* the deadline passes while the batch function is running.  No batch
\* function takes a deadline or reads a clock: nothing reacts to it.
DeadlineExpires ==
    /\ ~deadlineExpired
    /\ pc \notin {"returned", "raised"}
    /\ deadlineExpired' = TRUE
    /\ UNCHANGED <<sel, n, cpu, failing, setupFault, base, menuVars,
                   pc, next, itemVars, poolVars, tstate, sessVars>>

DeadlineNext == Next \/ DeadlineExpires

DeadlineSpec == Init /\ [][DeadlineNext]_vars

\* ------------------------------------------------------------------------
\* Properties
\* ------------------------------------------------------------------------

\* control has left the batch function, by return or by exception
Exited == pc \in {"returned", "raised"}

\* the run's state: Idle -> Running -> {Completed, Failed}
RunState ==
    CASE pc = "idle" -> "Idle"
      [] pc = "returned" -> "Completed"
      [] pc = "raised" -> "Failed"
      [] OTHER -> "Running"

\* sessions created by thread / process w
CreatedBy(w) == {s \in DOMAIN owner : owner[s] = w}

\* C1 (as claimed): under every strategy, once the batch function has been
\* left after a successful setup, every submitted item has been started
\* exactly once and has an outcome: none dropped, none processed twice.
C1_EveryItemExactlyOneOutcome ==
    (Exited /\ ~setupFault) =>
        \A i \in Items : nstart[i] = 1 /\ outcome[i] # "none"

\* C2 (as claimed): failure isolation under every strategy: once the batch
\* function has been left after a successful setup, exactly the items for
\* which the work function raises have failed and all others succeeded.
C2_FailureIsolation ==
    (Exited /\ ~setupFault) =>
        \A i \in Items :
            outcome[i] = (IF i \in failing THEN "failure" ELSE "success")

\* C3: a batch function has returned only if every submitted item has
\* finished: after the return no item is queued or in flight.
C3_ReturnsAfterAllFinished ==
    pc = "returned" =>
        /\ Finished = Items
        /\ InFlight = {}
        /\ \A w \in WorkerIds : wstate[w] # "running"

\* C3 witness: the thread-pool variant has returned from a list longer than
\* the pool, with a failing item among them.
C3_Witness ==
    /\ IsThreaded /\ pc = "returned"
    /\ n > MaxWorkers /\ failing # {}
    /\ Finished = Items

\* C4 (as claimed): the run ends Failed (the batch function raises) only
\* because of a batch-level fault, never because of a per-item failure.
C4_FailedOnlyFromBatchFault ==
    RunState = "Failed" => setupFault

\* C5: the thread pool has at most max_workers = 5 items in flight, the
\* process pool at most as many as it has worker processes.
C5_BoundedConcurrency ==
    /\ IsThreaded => Cardinality(InFlight) <= MaxWorkers
    /\ IsMultiProcess => Cardinality(InFlight) <= cpu

\* C5 witness: all 5 threads of the pool are busy while a further item waits
\* in the work queue.
C5_Witness ==
    /\ IsThreaded
    /\ Cardinality(InFlight) = MaxWorkers
    /\ queue # <<>> /\ Head(queue) # 0

\* C6: in the thread pool every thread creates at most one session, and a
\* session is only ever used by the thread that created it (so a thread
\* uses the same session for all its items, and no two threads share one).
C6_SessionPerThread ==
    IsThreaded =>
        /\ \A t \in WorkerIds : Cardinality(CreatedBy(t)) <= 1
        /\ \A s \in DOMAIN users : users[s] \subseteq {owner[s]}
        /\ \A t \in WorkerIds :
              wstate[t] = "running" =>
                  /\ wsession[t] # NoSession
                  /\ owner[wsession[t]] = t
                  /\ t \in users[wsession[t]]

\* C6 witness: the run is over, several threads own a session and there were
\* more items than sessions, so some thread reused its session.
C6_Witness ==
    /\ IsThreaded /\ pc = "returned"
    /\ Len(owner) >= 2
    /\ n > Len(owner)
    /\ \A s \in DOMAIN users : users[s] # {}

\* C7: in the process pool with the initializer every worker process that is
\* ready for items has created exactly one session, before its first item;
\* no process creates a second one (calling setGlobalSession again would
\* leave its session as it is); a session is used only by the process that
\* created it; the parent process has none.
C7_SessionPerProcess ==
    sel = 4 =>
        /\ \A p \in WorkerIds :
              /\ Cardinality(CreatedBy(p)) <= 1
              /\ wstate[p] \in {"idle", "running"} =>
                    /\ Cardinality(CreatedBy(p)) = 1
                    /\ wsession[p] \in CreatedBy(p)
              /\ wstate[p] = "running" => p \in users[wsession[p]]
              /\ wsession[p] # NoSession =>
                    SetGlobalSession(wsession[p]) = wsession[p]
        /\ \A s \in DOMAIN users : users[s] \subseteq {owner[s]}
        /\ wsession[MainThread] = NoSession
        /\ CreatedBy(MainThread) = {}

\* C7 witness: two worker processes own different sessions, both have used
\* theirs, and one of them is on a later item of the list.
C7_Witness ==
    /\ sel = 4 /\ cpu >= 2
    /\ wsession[1] # NoSession /\ wsession[2] # NoSession
    /\ wsession[1] # wsession[2]
    /\ users[wsession[1]] = {1} /\ users[wsession[2]] = {2}
    /\ \E p \in 1..2 : wstate[p] = "running" /\ witem[p] > 2

\* C8: in the asyncio strategy no task has begun to run before the task of
\* every item of the list has been created.
C8_AllTasksCreatedBeforeAnyRuns ==
    IsAsyncIO =>
        \A i \in Items :
            tstate[i] \notin {"none", "pending"} =>
                \A j \in Items : tstate[j] # "none"

\* C8 witness: the first task runs while the tasks of the later items are
\* still waiting to be started.
C8_Witness ==
    /\ IsAsyncIO /\ n >= 2
    /\ tstate[1] = "running1"
    /\ \A j \in 2..n : tstate[j] = "pending"

\* C9: in the asyncio strategy at most one coroutine (downloadAllSites or
\* one download task) is executing at any instant: a task starts or resumes
\* only when the one before has reached an await or has finished.
C9_OneCoroutineAtATime ==
    IsAsyncIO =>
        Cardinality(RunningTasks) + (IF MainRunning THEN 1 ELSE 0) <= 1

\* C9 witness: one task is executing after its response arrived while
\* another is suspended in session.get and a third is ready to resume.
C9_Witness ==
    /\ IsAsyncIO
    /\ \E i, j, k \in Items :
          /\ tstate[i] = "running2"
          /\ tstate[j] = "waiting"
          /\ tstate[k] = "ready"

\* C10: in the sequential strategy at most one item is in flight and an item
\* is started only after all items before it in the list have finished, so
\* items complete in input order.
C10_SequentialInOrder ==
    IsSequential =>
        /\ Cardinality(InFlight) <= 1
        /\ \A i \in Items :
              nstart[i] > 0 => \A j \in 1..(i - 1) : outcome[j] # "none"
        /\ \A i \in Items :
              outcome[i] # "none" => \A j \in 1..(i - 1) : outcome[j] # "none"

\* C10 witness: the third item of the list is in flight, the first two have
\* finished.
C10_Witness ==
    /\ IsSequential /\ pc = "call"
    /\ next >= 3
    /\ InFlight = {next}

\* C11 (as claimed): on every exit path of a batch function every session
\* opened for the run has been closed and every pool worker is gone.
C11_CleanupOnEveryExit ==
    Exited =>
        /\ \A s \in DOMAIN owner : s \in closed
        /\ \A w \in WorkerIds : wstate[w] \in {"unstarted", "exited"}

\* C12: when control has left downloadAllSites / findSumsMultiProcessing, no
\* worker thread or worker process of the run is alive or executing an item,
\* and the pool's queue holds no item.
C12_PoolScopedToRun ==
    Exited =>
        /\ \A w \in WorkerIds :
              wstate[w] \in {"unstarted", "exited"} /\ witem[w] = 0
        /\ \A k \in 1..Len(queue) : queue[k] \notin Items

\* C12 witness: the process pool run is over, by return or by the exception
\* of a failed item, and both worker processes it had started have exited.
C12_Witness ==
    /\ IsMultiProcess /\ Exited /\ cpu >= 2
    /\ Finished # {}
    /\ \A w \in 1..cpu : wstate[w] = "exited"

\* C13: getProcessSelection returns only one of '1'..'6' and 'q', and never
\* right after printing INVALID SELECTION!; on each input x it returns x at
\* once when x is a selection or 'q', without printing INVALID SELECTION!,
\* and otherwise prints INVALID SELECTION! and prompts again.
C13_GetProcessSelection ==
    /\ [](mpc = "selected" =>
            /\ processSelection \in ValidSelections \cup {"q"}
            /\ ~invalidPrinted)
    /\ [][mpc = "menu" =>
            IF processSelection' \in ValidSelections \cup {"q"}
            THEN mpc' = "selected" /\ ~invalidPrinted'
            ELSE mpc' = "menu" /\ invalidPrinted']_vars

\* C13 witness: after an input that is no selection the menu has
\* printed INVALID SELECTION! and prompts again.
C13_Witness ==
    /\ mpc = "menu"
    /\ processSelection = "7"
    /\ invalidPrinted

\* C14 (as claimed): the script ends only after the selection 'q', and
\* while a demonstration runs it is the one the selection names.
C14_ExitOnlyViaQuit ==
    /\ mpc \in {"quit", "crashed"} => processSelection = "q"
    /\ mpc = "run" =>
          /\ processSelection \in ValidSelections
          /\ sel = Dispatch(processSelection)

\* C15 (as claimed): once the overall deadline has expired no further item
\* is started.
C15_NoStartAfterDeadline ==
    [][deadlineExpired => \A i \in ItemIds : nstart'[i] = nstart[i]]_vars

\* C19: when the module Concurrency is loaded under a name other than
\* __main__, the menu loop does not run, and calling its test functions
\* starts no run: no pool worker, no session, no item processed.
C19_GuardsMakeImportInert ==
    moduleName # "__main__" =>
        /\ mpc \in {"start", "imported"}
        /\ sel = 0 /\ pc = "idle"
        /\ \A i \in ItemIds : nstart[i] = 0
        /\ \A w \in WorkerIds : wstate[w] = "unstarted"
        /\ owner = <<>>

\* C19 witness: inside a spawned worker process, which re-imports the module
\* as __mp_main__, testConcurrency4IOBoundMultiProcessing has been called
\* and has returned.
C19_Witness ==
    /\ moduleName = "__mp_main__"
    /\ mpc = "imported"
    /\ lastCall = 4

\* C16: a batch function called with an empty list, its setup succeeding,
\* never calls the work function, never raises and never gets stuck: until
\* it has returned, some step of it is enabled.
C16_EmptyListAccepted ==
    (n = 0 /\ ~setupFault) =>
        /\ \A i \in ItemIds : nstart[i] = 0
        /\ pc # "raised"
        /\ pc = "returned" \/ ENABLED Next

\* C16 witness: the asyncio downloadAllSites has returned from an empty
\* list, having opened and closed its session.
C16_Witness ==
    /\ IsAsyncIO /\ n = 0 /\ pc = "returned"
    /\ closed # {}

\* C17: in the asyncio strategy the shared session is closed only when every
\* download task is done: no task is pending, running or waiting on a
\* closed session.
C17_SessionOpenUntilTasksDone ==
    (IsAsyncIO /\ wsession[MainThread] \in closed) =>
        \A i \in Items : tstate[i] = "done"

\* C17 witness: the session has been closed after a run in which one task
\* failed and another succeeded.
C17_Witness ==
    /\ IsAsyncIO /\ wsession[MainThread] \in closed
    /\ \E i, j \in Items : outcome[i] = "failure" /\ outcome[j] = "success"

\* C18: in the thread-pool strategy, once the executor exists, the batch
\* function never raises: whatever items failed, it returns normally, and
\* the state the caller is left in does not depend on the failures.
C18_ThreadPoolFailuresUnobserved ==
    (IsThreaded /\ ~setupFault) =>
        /\ pc # "raised"
        /\ pc = "returned" => Finished = Items

\* C18 witness: the thread-pool downloadAllSites has returned although
\* every item of the list failed.
C18_Witness ==
    /\ IsThreaded /\ pc = "returned"
    /\ n >= 2
    /\ \A i \in Items : outcome[i] = "failure"

\* the sum of i * i over 0 <= i < m, in closed form
SquaresBelow(m) == IF m <= 0 THEN 0 ELSE ((m - 1) * m * (2 * m - 1)) \div 6

\* C20: whatever sumOfSquares returned for an item, in the sequential loop
\* or in a pool worker, is the sum of i * i over 0 <= i < number, which is
\* 0 for number <= 0.
C20_SumOfSquares ==
    sel \in {5, 6} =>
        \A i \in Items :
            outcome[i] = "success" => value[i] = SquaresBelow(Number(i))

\* C20 witness: a pool worker has returned the sum for a positive number and
\* for a number that is not positive.
C20_Witness ==
    /\ sel = 6
    /\ \E i, j \in Items :
          /\ outcome[i] = "success" /\ Number(i) <= 0 /\ value[i] = 0
          /\ outcome[j] = "success" /\ Number(j) >= 3 /\ value[j] > 0

====
